---- MODULE Spec2Model ----
(***************************************************************************)
(* Skill-Forge: the interactive Rubik's Cube state model                   *)
(* (InteractiveRubiksCube: createSolvedCubeState, rotateLayer,             *)
(* rotateOrientation, rotate, scramble, reset) and the practice-session    *)
(* state of InteractiveBoard (handleStart, handleReset,                    *)
(* handleSquareClick, handleSudokuInput), and the session-duration         *)
(* tooltip of GameStatistics.                                              *)
(*                                                                         *)
(* A JavaScript string is a sequence of pieces: every character that a    *)
(* template literal interpolates or that the user types is one piece, and  *)
(* a fixed text of the source is one piece; '' is the empty sequence.      *)
(***************************************************************************)
EXTENDS Integers, Sequences, FiniteSets, TLC

VARIABLES
    cubies,     \* InteractiveRubiksCube: useState(createSolvedCubeState())
    lastOp,     \* history: the last cube handler that ran, and its inputs
    nops,       \* history: turns (rotate, scramble) since construction or reset
    isActive,   \* InteractiveBoard: useState(false)
    moves,      \* InteractiveBoard: useState<string[]>([])
    feedback,   \* InteractiveBoard: useState<string>('')
    lastEvent,  \* history: the last board handler that ran, and its value
    tooltipValue, \* GameStatistics: the duration of the data point hovered last
    tooltipText   \* GameStatistics: the text the tooltip formatter returned for it

vars == <<cubies, lastOp, nops, isActive, moves, feedback, lastEvent,
          tooltipValue, tooltipText>>
cubeVars == <<cubies, lastOp, nops>>
boardVars == <<isActive, moves, feedback, lastEvent>>
statsVars == <<tooltipValue, tooltipText>>

(***************************************************************************)
(* Bounds of the model.                                                    *)
(***************************************************************************)
\* turns (rotate or scramble handlers) applied to a cube since it was last
\* solved by construction or by reset
MaxOps == 1
\* largest row / column index of the squares and cells that are used
MaxCoord == 1
\* clicks recorded in moves since the last handleReset
MaxMoves == 1
\* longest session duration, in seconds, shown in the line chart
MaxDuration == 150

(***************************************************************************)
(* Strings.                                                                *)
(***************************************************************************)
Digits == <<"0", "1", "2", "3", "4", "5", "6", "7", "8", "9">>

\* String(n) for the integers the program formats (-9 .. 9)
NumStr(n) == IF n < 0 THEN <<"-", Digits[(-n) + 1]>> ELSE <<Digits[n + 1]>>

\* String.fromCharCode(c) for the codes the program uses (97 .. 104)
fromCharCode(c) == <<"a", "b", "c", "d", "e", "f", "g", "h">>[c - 96]

(***************************************************************************)
(* The cube.                                                               *)
(***************************************************************************)
Faces == {"U", "D", "F", "B", "L", "R"}

FACE_COLORS ==
    [U |-> "#ffffff", D |-> "#ffd600", F |-> "#43a047",
     B |-> "#1976d2", L |-> "#ff9800", R |-> "#e53935"]

getInitialCubieColors(x, y, z) ==
    [U |-> IF y = 1 THEN FACE_COLORS.U ELSE "#222",
     D |-> IF y = -1 THEN FACE_COLORS.D ELSE "#222",
     F |-> IF z = 1 THEN FACE_COLORS.F ELSE "#222",
     B |-> IF z = -1 THEN FACE_COLORS.B ELSE "#222",
     L |-> IF x = -1 THEN FACE_COLORS.L ELSE "#222",
     R |-> IF x = 1 THEN FACE_COLORS.R ELSE "#222"]

\* a relabeling that turns three faces and forgets the fourth
rotateOrientation_threeCycle(axisName, ori, cw) ==
    [U |-> ori.B, B |-> ori.D, D |-> ori.U, F |-> ori.F, L |-> ori.L, R |-> ori.R]

\* a relabeling that reads one face twice
rotateOrientation_duplicate(axisName, ori, cw) ==
    [U |-> ori.B, B |-> ori.D, D |-> ori.F, F |-> ori.B, L |-> ori.L, R |-> ori.R]

rotateOrientation(axisName, ori, cw) ==
    CASE axisName = "x" ->
            [U |-> IF cw THEN ori.B ELSE ori.F,
             B |-> IF cw THEN ori.D ELSE ori.U,
             D |-> IF cw THEN ori.F ELSE ori.B,
             F |-> IF cw THEN ori.U ELSE ori.D,
             L |-> ori.L,
             R |-> ori.R]
      [] axisName = "y" ->
            [F |-> IF cw THEN ori.L ELSE ori.R,
             R |-> IF cw THEN ori.B ELSE ori.F,
             B |-> IF cw THEN ori.R ELSE ori.L,
             L |-> IF cw THEN ori.F ELSE ori.B,
             U |-> ori.U,
             D |-> ori.D]
      [] axisName = "z" ->
            [U |-> IF cw THEN ori.L ELSE ori.R,
             L |-> IF cw THEN ori.D ELSE ori.U,
             D |-> IF cw THEN ori.R ELSE ori.L,
             R |-> IF cw THEN ori.U ELSE ori.D,
             F |-> ori.F,
             B |-> ori.B]

\* `${x},${y},${z}`
cubieKey(x, y, z) == NumStr(x) \o <<",">> \o NumStr(y) \o <<",">> \o NumStr(z)

\* the cubie pushed by the loop body for (x, y, z)
solvedCubie(x, y, z) ==
    [pos |-> <<x, y, z>>,
     orientation |-> [U |-> "U", D |-> "D", F |-> "F", B |-> "B", L |-> "L", R |-> "R"],
     stickers |-> getInitialCubieColors(x, y, z),
     key |-> cubieKey(x, y, z)]

\* the three nested loops x, y, z = -1 .. 1 push in this order
createSolvedCubeState ==
    [i \in 1..27 |->
        solvedCubie(((i - 1) \div 9) - 1, (((i - 1) \div 3) % 3) - 1, ((i - 1) % 3) - 1)]

\* a slice test that forgets which axis it was given
inLayer_anyAxis(cubie, axis, value) ==
    \/ cubie.pos[1] = value
    \/ cubie.pos[2] = value
    \/ cubie.pos[3] = value

\* the test of rotateLayer that selects the cubies of the slice
inLayer(cubie, axis, value) ==
    \/ axis = 0 /\ cubie.pos[1] = value
    \/ axis = 1 /\ cubie.pos[2] = value
    \/ axis = 2 /\ cubie.pos[3] = value

\* a position turn that copies one coordinate instead of swapping two
rotatePos_copy(pos, axis, clockwise) ==
    LET x == pos[1]
        y == pos[2]
        z == pos[3]
    IN CASE axis = 0 -> <<x, IF clockwise THEN -z ELSE z, IF clockwise THEN z ELSE -y>>
         [] axis = 1 -> <<IF clockwise THEN z ELSE -z, y, IF clockwise THEN -z ELSE x>>
         [] axis = 2 -> <<IF clockwise THEN -y ELSE y, IF clockwise THEN y ELSE -x, z>>

\* the rotated position of a cubie of the slice
rotatePos(pos, axis, clockwise) ==
    LET x == pos[1]
        y == pos[2]
        z == pos[3]
    IN CASE axis = 0 -> <<x, IF clockwise THEN -z ELSE z, IF clockwise THEN y ELSE -y>>
         [] axis = 1 -> <<IF clockwise THEN z ELSE -z, y, IF clockwise THEN -x ELSE x>>
         [] axis = 2 -> <<IF clockwise THEN -y ELSE y, IF clockwise THEN x ELSE -x, z>>

\* a rotation that builds the turned cubie anew from its new position
rotateLayer_rebuild(c, axis, value, clockwise) ==
    LET axisName == <<"x", "y", "z">>[axis + 1]
        newPos(i) == rotatePos(c[i].pos, axis, clockwise)
    IN [i \in 1..Len(c) |->
          IF inLayer(c[i], axis, value)
          THEN [pos |-> newPos(i),
                orientation |-> rotateOrientation(axisName, c[i].orientation, clockwise),
                stickers |-> getInitialCubieColors(newPos(i)[1], newPos(i)[2], newPos(i)[3]),
                key |-> cubieKey(newPos(i)[1], newPos(i)[2], newPos(i)[3])]
          ELSE c[i]]

rotateLayer(c, axis, value, clockwise) ==
    LET axisName == <<"x", "y", "z">>[axis + 1]
    IN [i \in 1..Len(c) |->
          IF inLayer(c[i], axis, value)
          THEN [pos |-> rotatePos(c[i].pos, axis, clockwise),
                orientation |-> rotateOrientation(axisName, c[i].orientation, clockwise),
                stickers |-> c[i].stickers,
                key |-> c[i].key]
          ELSE c[i]]

\* Cubie: the colour drawn on face `face` of the mesh
drawnColor(cubie, face) == cubie.stickers[cubie.orientation[face]]

(***************************************************************************)
(* The handlers of InteractiveRubiksCube.                                  *)
(***************************************************************************)
\* the axis and slice rotate(layer, clockwise) hands to rotateLayer
rotateAxis(layer) ==
    CASE layer = "U" -> 1 [] layer = "D" -> 1
      [] layer = "F" -> 2 [] layer = "B" -> 2
      [] layer = "L" -> 0 [] layer = "R" -> 0

rotateValue(layer) ==
    CASE layer = "U" -> 1 [] layer = "D" -> -1
      [] layer = "F" -> 1 [] layer = "B" -> -1
      [] layer = "L" -> -1 [] layer = "R" -> 1

\* the buttons call rotate(layer, true)
rotate(layer, clockwise) ==
    /\ nops < MaxOps
    /\ cubies' = rotateLayer(cubies, rotateAxis(layer), rotateValue(layer), clockwise)
    /\ lastOp' = [op |-> "rotate",
                  draws |-> <<[move |-> layer, clockwise |-> clockwise]>>,
                  changed |-> cubies' # cubies]
    /\ nops' = nops + 1
    /\ UNCHANGED <<boardVars, statsVars>>

\* const moves = ['U', 'D', 'F', 'B', 'L', 'R'] of scramble
scrambleMoves == <<"U", "D", "F", "B", "L", "R">>

\* 'UDFBLR'.indexOf(move)
indexOf(move) == CHOOSE i \in 0..5 : scrambleMoves[i + 1] = move

\* the loop bound of scramble
ScrambleLen == 20

\* the axis and slice one iteration of scramble hands to rotateLayer
scrambleAxis(move) == indexOf(move) % 3

scrambleValue(move) == <<1, -1, 1, -1, -1, 1>>[indexOf(move) + 1]

\* iterations i .. ScrambleLen of the loop of scramble, draws[i] being the
\* move and the direction Math.random gives iteration i
RECURSIVE scrambleLoop(_, _, _)
scrambleLoop(tempCubies, draws, i) ==
    IF i > Len(draws) THEN tempCubies
    ELSE scrambleLoop(rotateLayer(tempCubies, scrambleAxis(draws[i].move),
                                  scrambleValue(draws[i].move), draws[i].clockwise),
                      draws, i + 1)

\* one (move, clockwise) pair of Math.random results
Draws == [move : Faces, clockwise : BOOLEAN]

\* the sequences of ScrambleLen draws explored: those that alternate
\* between two draws
DrawSeqs == {[i \in 1..ScrambleLen |-> IF i % 2 = 1 THEN a ELSE b] : a \in Draws, b \in Draws}

scramble(draws) ==
    /\ nops < MaxOps
    /\ cubies' = scrambleLoop(cubies, draws, 1)
    /\ lastOp' = [op |-> "scramble", draws |-> draws, changed |-> cubies' # cubies]
    /\ nops' = nops + 1
    /\ UNCHANGED <<boardVars, statsVars>>

\* a reset that restores the orientations and leaves the positions
reset_orientationOnly ==
    /\ cubies' = [i \in 1..Len(cubies) |->
                    [cubies[i] EXCEPT !.orientation = createSolvedCubeState[i].orientation]]
    /\ lastOp' = [op |-> "reset", draws |-> <<>>, changed |-> cubies' # cubies]
    /\ nops' = 0
    /\ UNCHANGED <<boardVars, statsVars>>

reset ==
    /\ cubies' = createSolvedCubeState
    /\ lastOp' = [op |-> "reset", draws |-> <<>>, changed |-> cubies' # cubies]
    /\ nops' = 0
    /\ UNCHANGED <<boardVars, statsVars>>

(***************************************************************************)
(* The handlers of InteractiveBoard.                                       *)
(***************************************************************************)
handleStart ==
    /\ isActive' = TRUE
    /\ feedback' = <<"Practice session started! Try making moves.">>
    /\ lastEvent' = [h |-> "handleStart", value |-> <<>>]
    /\ UNCHANGED <<moves, cubeVars, statsVars>>

handleReset ==
    /\ isActive' = FALSE
    /\ moves' = <<>>
    /\ feedback' = <<>>
    /\ lastEvent' = [h |-> "handleReset", value |-> <<>>]
    /\ UNCHANGED <<cubeVars, statsVars>>

\* `${String.fromCharCode(97 + col)}${8 - row}`
squareName(row, col) == <<fromCharCode(97 + col)>> \o NumStr(8 - row)

\* a click handler without the test of isActive
handleSquareClick_always(row, col) ==
    /\ Len(moves) < MaxMoves
    /\ lastEvent' = [h |-> "handleSquareClick", value |-> squareName(row, col)]
    /\ moves' = Append(moves, squareName(row, col))
    /\ feedback' = <<"Clicked square ">> \o squareName(row, col)
    /\ UNCHANGED isActive
    /\ UNCHANGED <<cubeVars, statsVars>>

handleSquareClick(row, col) ==
    /\ isActive => Len(moves) < MaxMoves
    /\ lastEvent' = [h |-> "handleSquareClick", value |-> squareName(row, col)]
    /\ IF ~isActive
       THEN UNCHANGED <<isActive, moves, feedback>>
       ELSE /\ moves' = Append(moves, squareName(row, col))
            /\ feedback' = <<"Clicked square ">> \o squareName(row, col)
            /\ UNCHANGED isActive
    /\ UNCHANGED <<cubeVars, statsVars>>

\* the test with the class [0-9] and without the end anchor
regexTest_loose(value) ==
    \/ Len(value) = 0
    \/ \E d \in 0..9 : value[1] = Digits[d + 1]

\* /^[1-9]?$/.test(value): nothing, or one character of the class [1-9],
\* between the start and the end of the string
regexTest(value) ==
    \/ Len(value) = 0
    \/ /\ Len(value) = 1
       /\ \E d \in 1..9 : value[1] = Digits[d + 1]

handleSudokuInput(row, col, value) ==
    /\ lastEvent' = [h |-> "handleSudokuInput", value |-> value]
    /\ IF ~isActive
       THEN UNCHANGED <<isActive, moves, feedback>>
       ELSE IF ~regexTest(value)
       THEN UNCHANGED <<isActive, moves, feedback>>
       ELSE /\ feedback' = IF Len(value) > 0
                           THEN <<"Placed ">> \o value \o <<" at row ">> \o NumStr(row + 1)
                                \o <<", column ">> \o NumStr(col + 1)
                           ELSE <<"Cell cleared">>
            /\ UNCHANGED <<isActive, moves>>
    /\ UNCHANGED <<cubeVars, statsVars>>

\* the values e.target.value hands to handleSudokuInput: the strings of
\* at most one character the input (maxLength 1) lets the user type, and
\* longer strings a paste or a script can put there
SudokuValues ==
    {<<>>, <<"1">>, <<"5">>, <<"9">>, <<"0">>, <<"a">>, <<" ">>,
     <<"1", "2">>, <<"1", "0">>, <<"9", "a">>}

(***************************************************************************)
(* The session-duration tooltip of GameStatistics.                         *)
(***************************************************************************)
\* Number.prototype.toString of a non-negative integer
RECURSIVE toDecimal(_)
toDecimal(n) ==
    IF n < 10 THEN <<Digits[n + 1]>>
    ELSE toDecimal(n \div 10) \o <<Digits[(n % 10) + 1]>>

\* Math.round(num / den) for den > 0: the nearest integer, a half going up
mathRound(num, den) == ((2 * num) + den) \div (2 * den)

\* (v: number) => `${Math.round(v / 60)}m ${v % 60}s`
formatter(v) ==
    toDecimal(mathRound(v, 60)) \o <<"m ">> \o toDecimal(v % 60) \o <<"s">>

\* the chart shows the tooltip of a data point of duration v
showTooltip(v) ==
    /\ tooltipValue' = v
    /\ tooltipText' = formatter(v)
    /\ UNCHANGED <<cubeVars, boardVars>>

(***************************************************************************)
(* Specification.                                                          *)
(***************************************************************************)
Init ==
    /\ cubies = createSolvedCubeState
    /\ lastOp = [op |-> "init", draws |-> <<>>, changed |-> FALSE]
    /\ nops = 0
    /\ isActive = FALSE
    /\ moves = <<>>
    /\ feedback = <<>>
    /\ lastEvent = [h |-> "init", value |-> <<>>]
    /\ tooltipValue = 0
    /\ tooltipText = <<>>

\* InteractiveRubiksCube
Next ==
    \/ \E layer \in Faces : rotate(layer, TRUE)
    \/ \E draws \in DrawSeqs : scramble(draws)
    \/ reset

Spec == Init /\ [][Next]_vars

\* InteractiveBoard
BoardNext ==
    \/ handleStart
    \/ handleReset
    \/ \E row \in 0..MaxCoord, col \in 0..MaxCoord : handleSquareClick(row, col)
    \/ \E row \in 0..MaxCoord, col \in 0..MaxCoord, value \in SudokuValues :
          handleSudokuInput(row, col, value)

BoardSpec == Init /\ [][BoardNext]_vars

\* GameStatistics
StatsNext == \E v \in 0..MaxDuration : showTooltip(v)

StatsSpec == Init /\ [][StatsNext]_vars


(***************************************************************************)
(* Properties of the cube.                                                 *)
(***************************************************************************)
Axes == {0, 1, 2}
Slices == {-1, 0, 1}
Identity == [U |-> "U", D |-> "D", F |-> "F", B |-> "B", L |-> "L", R |-> "R"]

fourTurns(c, axis, value, clockwise) ==
    rotateLayer(rotateLayer(rotateLayer(rotateLayer(c, axis, value, clockwise),
                                        axis, value, clockwise),
                            axis, value, clockwise),
                axis, value, clockwise)

\* C1: in every reachable cube state, for every axis, slice and direction,
\* four rotateLayer calls in a row with the same arguments leave every
\* cubie with the position and the orientation it had before them.
C1_FourTurnsRestore ==
    \A axis \in Axes, value \in Slices, clockwise \in BOOLEAN :
        LET r == fourTurns(cubies, axis, value, clockwise)
        IN /\ Len(r) = Len(cubies)
           /\ \A i \in 1..Len(cubies) :
                 /\ r[i].pos = cubies[i].pos
                 /\ r[i].orientation = cubies[i].orientation

\* a scrambled cube on which one turn of a slice moves a cubie and changes
\* its orientation, so that the four turns have something to restore
C1_Witness ==
    /\ lastOp.op = "scramble"
    /\ lastOp.changed
    /\ \E i \in 1..Len(cubies) :
          LET r == rotateLayer(cubies, 0, 1, TRUE)
          IN r[i].pos # cubies[i].pos /\ r[i].orientation # cubies[i].orientation

\* C2: in every reachable state the cube has 27 cubies, every coordinate is
\* in {-1, 0, 1} and no two cubies share a position.
C2_PositionsArePermutation ==
    /\ Len(cubies) = 27
    /\ \A i \in 1..Len(cubies) :
          /\ Len(cubies[i].pos) = 3
          /\ \A k \in 1..3 : cubies[i].pos[k] \in {-1, 0, 1}
    /\ \A i, j \in 1..Len(cubies) : cubies[i].pos = cubies[j].pos => i = j
    /\ {cubies[i].pos : i \in 1..Len(cubies)} = {-1, 0, 1} \X {-1, 0, 1} \X {-1, 0, 1}

\* a rotate or a scramble has moved cubies away from their solved positions
C2_Witness ==
    /\ lastOp.op \in {"rotate", "scramble"}
    /\ \E i \in 1..Len(cubies) : cubies[i].pos # createSolvedCubeState[i].pos

\* C3: in every reachable cube state, for every rotateLayer call, a cubie
\* whose coordinate along the axis differs from value is the same record
\* (position, orientation, stickers, key) at the same index in the result.
C3_OutsideSliceUnchanged ==
    \A axis \in Axes, value \in Slices, clockwise \in BOOLEAN :
        LET r == rotateLayer(cubies, axis, value, clockwise)
        IN /\ Len(r) = Len(cubies)
           /\ \A i \in 1..Len(cubies) :
                 cubies[i].pos[axis + 1] # value =>
                    /\ r[i].pos = cubies[i].pos
                    /\ r[i].orientation = cubies[i].orientation
                    /\ r[i].stickers = cubies[i].stickers
                    /\ r[i].key = cubies[i].key

\* a turned cube on which a rotateLayer call changes some cubie while
\* another cubie lies outside the slice
C3_Witness ==
    /\ lastOp.op = "rotate"
    /\ lastOp.changed
    /\ \E i, j \in 1..Len(cubies) :
          /\ cubies[i].pos[2] = 1
          /\ rotateLayer(cubies, 1, 1, FALSE)[i] # cubies[i]
          /\ cubies[j].pos[2] # 1

\* the digit a character stands for
digitValue(ch) == CHOOSE d \in 0..9 : Digits[d + 1] = ch

\* the integer a decimal string names
parseNum(str) == IF str[1] = "-" THEN -digitValue(str[2]) ELSE digitValue(str[1])

\* the position a key "x,y,z" names
keyPosition(key) ==
    LET commas == {k \in 1..Len(key) : key[k] = ","}
        c1 == CHOOSE k \in commas : \A m \in commas : k <= m
        c2 == CHOOSE k \in commas : \A m \in commas : k >= m
    IN <<parseNum(SubSeq(key, 1, c1 - 1)),
         parseNum(SubSeq(key, c1 + 1, c2 - 1)),
         parseNum(SubSeq(key, c2 + 1, Len(key)))>>

\* the cubie at pos lies on the outer layer of direction face
onOuterLayer(pos, face) ==
    CASE face = "U" -> pos[2] = 1
      [] face = "D" -> pos[2] = -1
      [] face = "F" -> pos[3] = 1
      [] face = "B" -> pos[3] = -1
      [] face = "L" -> pos[1] = -1
      [] face = "R" -> pos[1] = 1

\* C4: right after a reset every cubie is at the position its key names,
\* has the identity orientation and carries the solved sticker colours of
\* that position, whatever the state before the reset was.
C4_ResetYieldsSolved ==
    lastOp.op = "reset" =>
        /\ Len(cubies) = 27
        /\ \A i \in 1..Len(cubies) :
              /\ cubies[i].pos = keyPosition(cubies[i].key)
              /\ cubies[i].orientation = Identity
              /\ \A f \in Faces :
                    cubies[i].stickers[f] =
                        IF onOuterLayer(cubies[i].pos, f) THEN FACE_COLORS[f] ELSE "#222"
        /\ \A i, j \in 1..Len(cubies) : cubies[i].key = cubies[j].key => i = j

\* a reset that found the cube turned or scrambled
C4_Witness == lastOp.op = "reset" /\ lastOp.changed

\* C5: in every reachable state the orientation of every cubie is a
\* bijection from the six face labels onto the six face labels.
C5_OrientationBijection ==
    \A i \in 1..Len(cubies) :
        /\ DOMAIN cubies[i].orientation = Faces
        /\ {cubies[i].orientation[f] : f \in Faces} = Faces

\* a scramble has left some cubie with an orientation other than the identity
C5_Witness ==
    /\ lastOp.op = "scramble"
    /\ \E i \in 1..Len(cubies) : cubies[i].orientation # Identity

\* C6: in every reachable state every cubie has the sticker mapping and the
\* key createSolvedCubeState gave it.
C6_StickersAndKeyFixed ==
    /\ Len(cubies) = Len(createSolvedCubeState)
    /\ \A i \in 1..Len(cubies) :
          /\ cubies[i].stickers = createSolvedCubeState[i].stickers
          /\ cubies[i].key = createSolvedCubeState[i].key

\* a turn has moved a cubie to a position its key does not name and changed
\* its orientation
C6_Witness ==
    /\ lastOp.op \in {"rotate", "scramble"}
    /\ \E i \in 1..Len(cubies) :
          /\ cubies[i].pos # keyPosition(cubies[i].key)
          /\ cubies[i].orientation # Identity

\* C7: in every reachable state, for every cubie and face direction d, the
\* colour drawn on d is a face colour exactly when the cubie lies on the
\* outer layer of direction d.
C7_ColoursOnOutside ==
    \A i \in 1..Len(cubies) : \A d \in Faces :
        (drawnColor(cubies[i], d) # "#222") <=> onOuterLayer(cubies[i].pos, d)

\* the cycle of faces around each axis
faceCycle(axisName) ==
    CASE axisName = "x" -> <<"U", "B", "D", "F">>
      [] axisName = "y" -> <<"F", "R", "B", "L">>
      [] axisName = "z" -> <<"U", "L", "D", "R">>

\* the faces on each axis
axisFaces(axisName) ==
    CASE axisName = "x" -> {"L", "R"}
      [] axisName = "y" -> {"U", "D"}
      [] axisName = "z" -> {"F", "B"}

\* new is old relabeled along the cycle cyc, in one direction or the other
cyclicRelabel(new, old, cyc) ==
    \/ \A k \in 1..4 : new[cyc[k]] = old[cyc[(k % 4) + 1]]
    \/ \A k \in 1..4 : new[cyc[(k % 4) + 1]] = old[cyc[k]]

\* C8: for each axis and both directions, one quarter turn relabels the
\* orientation of every cubie along the single four-cycle of the faces
\* around the axis and keeps the two faces on the axis.
C8_CyclicRelabeling ==
    \A axisName \in {"x", "y", "z"}, cw \in BOOLEAN : \A i \in 1..Len(cubies) :
        LET old == cubies[i].orientation
            new == rotateOrientation(axisName, old, cw)
        IN /\ cyclicRelabel(new, old, faceCycle(axisName))
           /\ \A f \in axisFaces(axisName) : new[f] = old[f]

\* the layer turns the rotate handler makes for a sequence of draws
RECURSIVE rotateAll(_, _, _)
rotateAll(c, draws, i) ==
    IF i > Len(draws) THEN c
    ELSE rotateAll(rotateLayer(c, rotateAxis(draws[i].move), rotateValue(draws[i].move),
                               draws[i].clockwise),
                   draws, i + 1)

\* C10: a scramble replaces the cube state by the state transformed by 20
\* draws of a face and a direction, each draw of face X turning the layer
\* the rotate handler turns for X.
C10_ScrambleTurnsDrawnFaces ==
    [][lastOp'.op = "scramble" =>
          /\ Len(lastOp'.draws) = 20
          /\ \A k \in 1..Len(lastOp'.draws) : lastOp'.draws[k] \in Draws
          /\ cubies' = rotateAll(cubies, lastOp'.draws, 1)]_vars

\* C11: in every reachable cube state, for every axis and slice, a
\* clockwise rotateLayer followed by a counter-clockwise one (and the other
\* way round) leaves every cubie with the position and the orientation it
\* had before the two turns.
C11_TurnsAreInverses ==
    \A axis \in Axes, value \in Slices, clockwise \in BOOLEAN :
        LET r == rotateLayer(rotateLayer(cubies, axis, value, clockwise),
                             axis, value, ~clockwise)
        IN /\ Len(r) = Len(cubies)
           /\ \A i \in 1..Len(cubies) :
                 /\ r[i].pos = cubies[i].pos
                 /\ r[i].orientation = cubies[i].orientation

(***************************************************************************)
(* Properties of the board.                                                *)
(***************************************************************************)
\* the empty string or one character '1' .. '9'
emptyOrDigit(value) ==
    value \in {<<>>, <<"1">>, <<"2">>, <<"3">>, <<"4">>, <<"5">>, <<"6">>, <<"7">>, <<"8">>, <<"9">>}

\* C9: a handleSudokuInput call never changes isActive or moves, and it
\* changes feedback only when the session is active and the value is the
\* empty string or one character '1' .. '9'.
C9_SudokuInputRestricted ==
    [][lastEvent'.h = "handleSudokuInput" =>
          /\ isActive' = isActive
          /\ moves' = moves
          /\ (feedback' # feedback) => (isActive /\ emptyOrDigit(lastEvent'.value))]_vars

\* an active session in which the value '0' was typed and the feedback is
\* still the one handleStart set
C9_Witness ==
    /\ lastEvent.h = "handleSudokuInput"
    /\ lastEvent.value = <<"0">>
    /\ isActive
    /\ feedback = <<"Practice session started! Try making moves.">>


\* an inactive session has no recorded data
inactiveIsEmpty == ~isActive => (moves = <<>> /\ feedback = <<>>)

\* C12: in every reachable state of the board an inactive session has no
\* moves and the empty feedback; a square click while the session is
\* inactive leaves moves as it was; and handleReset always ends in the
\* initial state (inactive, no moves, no feedback).
C12_InactiveHasNoData ==
    /\ []inactiveIsEmpty
    /\ [][/\ (lastEvent'.h = "handleSquareClick" /\ ~isActive) => moves' = moves
          /\ lastEvent'.h = "handleReset" =>
                (isActive' = FALSE /\ moves' = <<>> /\ feedback' = <<>>)]_vars

\* a square was clicked while the session was inactive
C12_Witness ==
    /\ lastEvent.h = "handleSquareClick"
    /\ ~isActive
    /\ moves = <<>>


(***************************************************************************)
(* Properties of the statistics page.                                      *)
(***************************************************************************)
\* the non-negative integer a sequence of decimal digits names
RECURSIVE parseDecimal(_)
parseDecimal(str) ==
    IF Len(str) = 0 THEN 0
    ELSE (10 * parseDecimal(SubSeq(str, 1, Len(str) - 1))) + digitValue(str[Len(str)])

\* the index of the piece "m " of a tooltip text 'Xm Ys'
minuteMark(text) == CHOOSE k \in 1..Len(text) : text[k] = "m "

\* X and Y of a tooltip text 'Xm Ys'
shownMinutes(text) == parseDecimal(SubSeq(text, 1, minuteMark(text) - 1))
shownSeconds(text) == parseDecimal(SubSeq(text, minuteMark(text) + 1, Len(text) - 1))

\* C13: the tooltip text 'Xm Ys' shown for a duration of v seconds
\* decomposes v: X * 60 + Y = v and 0 <= Y < 60.
C13_TooltipDecomposesDuration ==
    tooltipText # <<>> =>
        /\ tooltipText[Len(tooltipText)] = "s"
        /\ (shownMinutes(tooltipText) * 60) + shownSeconds(tooltipText) = tooltipValue
        /\ shownSeconds(tooltipText) >= 0
        /\ shownSeconds(tooltipText) < 60

====
